---- MODULE Spec2Model ----
(***************************************************************************)
(* Model of the prompt -> image -> 3D-model pipeline:                      *)
(*   app/core/llm.py       LLMHandler  (prompt expansion, hint extractors) *)
(*   app/core/memory.py    MemoryHandler (session dict + SqliteDict)       *)
(*   app/core/pipeline.py  Pipeline.process and the two artifact writers   *)
(* Texts are sequences of one-character strings, dicts with insertion      *)
(* order are sequences of entries, None is the record NoneVal.             *)
(***************************************************************************)
EXTENDS Integers, Sequences, FiniteSets, TLC

VARIABLES
    llm,            \* Pipeline.llm: "None" or "handler"          (pipeline.py:34)
    session_memory, \* MemoryHandler.session_memory, insertion-ordered dict
    db,             \* MemoryHandler.db: the SqliteDict table, key -> entry
    uncommitted,    \* keys written to db and not yet committed
    files,          \* files made by tempfile.NamedTemporaryFile(delete=False)
    now,            \* the wall clock read by datetime.now()
    pc,             \* per run: position inside Pipeline.process
    prompt,         \* per run: argument prompt
    stub,           \* per run: behaviour of the argument stub
    expanded,       \* per run: local expanded
    img_path,       \* per run: local img_path
    model_path,     \* per run: local model_path
    model_result,   \* per run: local model_result (its metadata)
    result,         \* per run: the value process returned
    calls,          \* per run: number of stub.call invocations per service
    listed,         \* the last list_recent_sessions call: [n, out], or None
    exp_args,       \* an expand_prompt call: [p, r1, r2]
    exp_ret,        \* what that call returned, or None before it returns
    op,             \* the last MemoryHandler call made by a client, or None
    log,            \* the records handed to the logging module, in order
    memory_handler, \* main.memory_handler: "None" or "handler"
    llm_handler,    \* main.llm_handler: "None" or "handler"
    pipeline,       \* main.pipeline: "None" or "Pipeline" (its llm is llm)
    configurations, \* main.configurations: user id -> ConfigClass or None
    constructed,    \* how many handlers and pipelines config has constructed
    request,        \* model.request.prompt of the last execute
    user_config,    \* the local user_config of the last execute
    message,        \* model.response.message after the last execute
    handle,         \* the SqliteDict handle: was it opened, close() calls
    proc            \* the interpreter: "running" or "exited"

memvars == <<session_memory, db, uncommitted, files, now>>
runvars == <<pc, prompt, stub, expanded, img_path, model_path, model_result,
             result, calls>>
auxvars == <<listed, exp_args, exp_ret, op>>
appvars == <<memory_handler, llm_handler, pipeline, configurations,
             constructed, request, user_config, message, handle, proc>>
vars == <<llm, session_memory, db, uncommitted, files, now, pc, prompt, stub,
          expanded, img_path, model_path, model_result, result, calls, listed,
          exp_args, exp_ret, op, log, memory_handler, llm_handler, pipeline,
          configurations, constructed, request, user_config, message, handle,
          proc>>

-----------------------------------------------------------------------------
(* Bounds of the model                                                     *)

MaxClock == 1          \* the clock takes the values 0..MaxClock
MaxN == 3              \* list_recent_sessions is called with n in -MaxN..MaxN
MaxLog == 3            \* config and execute are called while the log is shorter

SessionIds == {"s1", "s2"}   \* one pipeline run per session id

NoneVal == [none |-> TRUE]           \* Python None
EmptyDict == [k \in {} |-> 0]        \* Python {}
Unbound == <<>>                      \* a text or path local not assigned yet

-----------------------------------------------------------------------------
(* Text: str.lower, str.strip, the "in" substring test                     *)

Lower(c) ==
    CASE c = "B" -> "b"
      [] c = "G" -> "g"
      [] c = "H" -> "h"
      [] c = "I" -> "i"
      [] c = "R" -> "r"
      [] c = "S" -> "s"
      [] c = "T" -> "t"
      [] c = "W" -> "w"
      [] OTHER -> c

LowerText(text) == [i \in 1..Len(text) |-> Lower(text[i])]

IsSpace(c) == c \in {" ", "\n", "\t"}

RECURSIVE LStrip(_)
LStrip(text) ==
    IF text # <<>> /\ IsSpace(Head(text)) THEN LStrip(Tail(text)) ELSE text

RECURSIVE RStrip(_)
RStrip(text) ==
    IF text # <<>> /\ IsSpace(text[Len(text)])
    THEN RStrip(SubSeq(text, 1, Len(text) - 1))
    ELSE text

Strip(text) == RStrip(LStrip(text))

\* Python: word in text
Contains(text, word) ==
    \E i \in 0..(Len(text) - Len(word)) :
        SubSeq(text, i + 1, i + Len(word)) = word

W_sunlight == <<"s","u","n","l","i","g","h","t">>
W_bright == <<"b","r","i","g","h","t">>
W_sunny == <<"s","u","n","n","y">>
W_daylight == <<"d","a","y","l","i","g","h","t">>
W_panorama == <<"p","a","n","o","r","a","m","a">>
W_wide == <<"w","i","d","e">>
W_vast == <<"v","a","s","t">>
W_foreground == <<"f","o","r","e","g","r","o","u","n","d">>

\* the lighting test without text.lower()
_extract_lighting_CaseSensitive(text) ==
    [primary_light |->
        IF Contains(text, W_sunlight) THEN "natural" ELSE "artificial",
     mood |->
        IF \E x \in {W_bright, W_sunny, W_daylight} : Contains(text, x)
        THEN "bright" ELSE "dark"]

_extract_lighting(text) ==
    [primary_light |->
        IF Contains(LowerText(text), W_sunlight) THEN "natural" ELSE "artificial",
     mood |->
        IF \E x \in {W_bright, W_sunny, W_daylight} : Contains(LowerText(text), x)
        THEN "bright" ELSE "dark"]

_extract_composition(text) ==
    [perspective |->
        IF \E x \in {W_panorama, W_wide, W_vast} : Contains(LowerText(text), x)
        THEN "wide" ELSE "close",
     focus |->
        IF Contains(LowerText(text), W_foreground) THEN "foreground" ELSE "background"]

-----------------------------------------------------------------------------
(* LLMHandler.expand_prompt.  r1 and r2 are what the two calls of self.llm *)
(* do: [ok |-> FALSE] when the call raises, [ok |-> TRUE, text |-> t]      *)
(* when it answers t.  The second call is only made after the first        *)
(* answered.                                                               *)

LLMRaise == [ok |-> FALSE]
LLMText(t) == [ok |-> TRUE, text |-> t]

\* the except branch: the original prompt, no hints
ExpandFallback(p) ==
    [expanded_prompt |-> p, style_hints |-> EmptyDict, technical_params |-> <<>>]

\* an expansion that keeps the first answer when the second call raises
expand_prompt_KeepFirst(p, r1, r2) ==
    IF ~r1.ok
    THEN ExpandFallback(p)
    ELSE [expanded_prompt |-> Strip(r1.text),
          style_hints |-> [lighting |-> _extract_lighting(r1.text),
                           composition |-> _extract_composition(r1.text)],
          technical_params |-> IF r2.ok THEN Strip(r2.text) ELSE <<>>]

expand_prompt(p, r1, r2) ==
    IF ~r1.ok \/ ~r2.ok
    THEN ExpandFallback(p)
    ELSE [expanded_prompt |-> Strip(r1.text),
          style_hints |-> [lighting |-> _extract_lighting(r1.text),
                           composition |-> _extract_composition(r1.text)],
          technical_params |-> Strip(r2.text)]

\* Inputs of the pipeline runs: prompts and what the model answers
P_castle == <<" ","c","a","s","t","l","e">>
P_dog == <<"d","o","g">>
Prompts == {P_castle, P_dog}
\* each run is called with a prompt of its own
PromptOf(s) == IF s = "s1" THEN P_castle ELSE P_dog

T_sunny == <<" ","S","u","n","n","y"," ","W","i","d","e","\n">>
CreativeTexts == {T_sunny}
T_lowpoly == <<" ","l","o","w","p","o","l","y">>
TechTexts == {T_lowpoly}

CreativeAnswers == {LLMRaise} \cup {LLMText(t) : t \in CreativeTexts}
TechAnswers == {LLMRaise} \cup {LLMText(t) : t \in TechTexts}

\* Inputs of the expand_prompt calls checked on their own
T_dim == <<"d","i","m">>
T_bright == <<"B","R","I","G","H","T"," ","f","o","r","e","g","r","o","u","n","d"," ">>
T_vast == <<"\t","v","a","s","t"," ","s","u","n","l","i","g","h","t">>
T_blank == <<" "," ">>
T_day == <<"d","a","y","l","i","g","h","t"," ","p","a","n","o","r","a","m","a">>
T_empty == <<>>
AllPrompts == Prompts \cup {T_empty}
T_near == <<"b","r","i","g","h"," ","s","u","n","l","i","g","h"," ","w","i","d">>
T_mixed == <<"S","u","n","l","i","G","H","T">>
AllCreativeTexts ==
    {T_sunny, T_dim, T_bright, T_vast, T_blank, T_day, T_near, T_mixed, T_empty}
AllTechTexts == {T_lowpoly, T_blank, T_empty}

ExpandInputs ==
    [p : AllPrompts,
     r1 : {LLMRaise} \cup {LLMText(t) : t \in AllCreativeTexts},
     r2 : {LLMRaise} \cup {LLMText(t) : t \in AllTechTexts}]

-----------------------------------------------------------------------------
(* Timestamps: datetime.now().isoformat().  The clock counts half seconds: *)
(* isoformat prints the seconds field and, only when the sub-second part   *)
(* is not zero, a fraction field after it.  Fields have a fixed width, so  *)
(* comparing the strings compares the field sequences lexicographically.   *)

IsoFormat(t) == IF t % 2 = 0 THEN <<t \div 2>> ELSE <<t \div 2, t % 2>>

\* Python str comparison a < b
RECURSIVE StrLess(_, _)
StrLess(a, b) ==
    IF b = <<>> THEN FALSE
    ELSE IF a = <<>> THEN TRUE
    ELSE IF Head(a) # Head(b) THEN Head(a) < Head(b)
    ELSE StrLess(Tail(a), Tail(b))

-----------------------------------------------------------------------------
(* MemoryHandler.  session_memory is a dict: a sequence of                 *)
(* [key, value] in insertion order, value = [data, timestamp].             *)

DictKeys(d) == {d[i].key : i \in 1..Len(d)}

\* the position of key in d, 0 when d has no such key
RECURSIVE DictIndex(_, _)
DictIndex(d, key) ==
    IF d = <<>> THEN 0
    ELSE IF d[Len(d)].key = key THEN Len(d)
    ELSE DictIndex(SubSeq(d, 1, Len(d) - 1), key)

\* d.get(key, {})
DictGet(d, key) ==
    LET i == DictIndex(d, key) IN IF i = 0 THEN EmptyDict ELSE d[i].value

\* an assignment that leaves the value of an existing key alone
DictSetKeepFirst(d, key, value) ==
    LET i == DictIndex(d, key) IN
    IF i = 0 THEN Append(d, [key |-> key, value |-> value]) ELSE d

\* d[key] = value : an existing key keeps its position
DictSet(d, key, value) ==
    LET i == DictIndex(d, key) IN
    IF i = 0
    THEN Append(d, [key |-> key, value |-> value])
    ELSE [d EXCEPT ![i].value = value]

\* a key that leaves the session id out
KeyNoSession(prefix, session_id) == <<prefix, "_">>

\* f"{prefix}_{session_id}"
Key(prefix, session_id) == <<prefix, "_", session_id>>

save_session(mem, key, data, t) ==
    DictSet(mem, key, [data |-> data, timestamp |-> IsoFormat(t)])

get_session(mem, key) ==
    LET entry == DictGet(mem, key) IN
    IF entry = EmptyDict THEN NoneVal ELSE entry.data

\* sorted(items, key=timestamp, reverse=True): stable, so equal timestamps
\* keep their dict order
RECURSIVE InsertDesc(_, _)
InsertDesc(sorted, item) ==
    IF sorted = <<>> THEN <<item>>
    ELSE IF StrLess(Head(sorted).value.timestamp, item.value.timestamp)
         THEN <<item>> \o sorted
         ELSE <<Head(sorted)>> \o InsertDesc(Tail(sorted), item)

RECURSIVE SortedDesc(_)
SortedDesc(items) ==
    IF items = <<>> THEN <<>>
    ELSE InsertDesc(SortedDesc(SubSeq(items, 1, Len(items) - 1)), items[Len(items)])

\* seq[:n]
SlicePrefix(seq, n) ==
    IF n >= 0
    THEN SubSeq(seq, 1, IF n < Len(seq) THEN n ELSE Len(seq))
    ELSE SubSeq(seq, 1, IF Len(seq) + n > 0 THEN Len(seq) + n ELSE 0)

\* the slice taken without sorting
list_recent_sessions_unsorted(mem, n) == SlicePrefix(mem, n)

list_recent_sessions(mem, n) == SlicePrefix(SortedDesc(mem), n)

\* a clear that spares the entry inserted last
clear_session_KeepLast(mem) ==
    IF mem = <<>> THEN <<>> ELSE <<mem[Len(mem)]>>

clear_session(mem) == <<>>

\* SqliteDict(db_path) without autocommit
AutoCommitOff == FALSE

\* SqliteDict(db_path, autocommit=True)
AutoCommit == TRUE

\* SqliteDict stores each value as a pickle blob and reads it back with
\* pickle.loads
encode(obj) == [pickle |-> obj]
decode(blob) == blob.pickle

\* self.db.get(key)
DbGet(store, key) ==
    IF key \in DOMAIN store THEN decode(store[key]) ELSE NoneVal

\* self.db[key] = entry ; ok = FALSE when the write raises
DbSetItem(store, key, entry, ok) ==
    IF ok
    THEN [k \in DOMAIN store \cup {key} |->
            IF k = key THEN encode(entry) ELSE store[k]]
    ELSE store

\* keys left uncommitted by self.db[key] = entry
DbDirty(unc, key, ok) ==
    IF ok /\ ~AutoCommit THEN unc \cup {key} ELSE unc

\* a reader that hands back the stored entry, timestamp included
get_persistent_entry(store, key) == DbGet(store, key)

get_persistent(store, key) ==
    LET entry == DbGet(store, key) IN
    IF entry = NoneVal THEN NoneVal ELSE entry.data

\* the table save_persistent leaves: its write puts the entry in, commit()
\* changes nothing of an autocommit table; ok = FALSE when the write raises
save_persistent(store, key, data, t, ok) ==
    DbSetItem(store, key, [data |-> data, timestamp |-> IsoFormat(t)], ok)

-----------------------------------------------------------------------------
(* Artifact files: Pipeline._save_temp_image / _save_temp_model.           *)
(* files is the temp directory in creation order; a file's name is unique  *)
(* among the files that exist, and none is ever deleted (delete=False).    *)

Bytes(b) == [type |-> "bytes", body |-> b]
Str(t) == [type |-> "str", body |-> t]

\* base64.b64decode: "UE5H" encodes the bytes "PNG", "Z2xi" the bytes "glb";
\* "UE5" has a wrong padding and raises binascii.Error
b64decode(t) ==
    CASE t = "UE5H" -> [raised |-> FALSE, bytes |-> "PNG"]
      [] t = "Z2xi" -> [raised |-> FALSE, bytes |-> "glb"]
      [] OTHER -> [raised |-> TRUE, message |-> "Incorrect padding"]

\* str(n) for the numbers that tell the temp files apart
Numeral(n) == <<"1", "2", "3", "4", "5", "6", "7", "8", "9">>[n]

\* a name that an earlier file already has
TempNameReused(fs, suffix) == <<"tmp", "1", suffix>>

\* tempfile.NamedTemporaryFile(suffix=suffix, delete=False): the new name
TempName(fs, suffix) == <<"tmp", Numeral(Len(fs) + 1), suffix>>

NamedTemporaryFile(fs, suffix) ==
    Append(fs, [name |-> TempName(fs, suffix), content |-> "", writes |-> 0])

\* tmp.write(data) on the file made last
TmpWrite(fs, data) ==
    [fs EXCEPT ![Len(fs)].content = data, ![Len(fs)].writes = @ + 1]

SaveTemp(fs, suffix, data) ==
    LET made == NamedTemporaryFile(fs, suffix)
        dec == IF data.type = "str" THEN b64decode(data.body)
               ELSE [raised |-> FALSE, bytes |-> data.body]
    IN  IF dec.raised
        THEN [raised |-> TRUE, message |-> dec.message, files |-> made]
        ELSE [raised |-> FALSE, path |-> made[Len(made)].name,
              files |-> TmpWrite(made, dec.bytes)]

ImageSuffix == ".png"
ModelSuffix == ".glb"

_save_temp_image(fs, image_data) == SaveTemp(fs, ImageSuffix, image_data)

_save_temp_model(fs, model_data) == SaveTemp(fs, ModelSuffix, model_data)

-----------------------------------------------------------------------------
(* The stub handed to process: what stub.call answers for each service.    *)

Raises(msg) == [raises |-> TRUE, message |-> msg]
ImageResponse(data) == [raises |-> FALSE, image |-> data]
ModelResponse(data) == [raises |-> FALSE, model |-> data]
ModelResponseMeta(data, meta) ==
    [raises |-> FALSE, model |-> data, metadata |-> meta]

Meta1 == [faces |-> "many"]

Stubs ==
    { [image |-> ImageResponse(Str("UE5H")),
       model |-> ModelResponseMeta(Str("Z2xi"), Meta1)],
      [image |-> Raises("text2img down"), model |-> ModelResponse(Bytes("glb"))],
      [image |-> ImageResponse(Str("UE5")), model |-> ModelResponse(Bytes("glb"))],
      [image |-> ImageResponse(Bytes("PNG")), model |-> Raises("img2_3d down")],
      [image |-> ImageResponse(Bytes("PNG")), model |-> ModelResponse(Str("UE5"))] }

\* model_result.get('metadata', {})
GetMetadata(resp) ==
    IF "metadata" \in DOMAIN resp THEN resp.metadata ELSE EmptyDict

-----------------------------------------------------------------------------
(* Pipeline.process                                                        *)

\* logging.error(text): text is the f-string, a sequence of its pieces
LogRecord(level, text) == [level |-> level, text |-> text]

PipelineErrorLog(msg) == LogRecord("ERROR", <<"Pipeline error: ", msg>>)
SaveImageErrorLog(msg) == LogRecord("ERROR", <<"Error saving image: ", msg>>)
SaveModelErrorLog(msg) == LogRecord("ERROR", <<"Error saving model: ", msg>>)
LLMErrorLog(msg) == LogRecord("ERROR", <<"LLM processing error: ", msg>>)

\* str(e) of the exception a failing call of the local model raises
LLMMessage == "llama failed"

\* what expand_prompt logs: its except block runs when either call raises
expand_prompt_log(r1, r2) ==
    IF ~r1.ok \/ ~r2.ok THEN <<LLMErrorLog(LLMMessage)>> ELSE <<>>

\* the try block with the two generation stages in the other order
NextStageModelFirst(stage) ==
    CASE stage = "expand" -> "model"
      [] stage = "model" -> "image"
      [] stage = "image" -> "persist"
      [] stage = "persist" -> "commit"
      [] stage = "commit" -> "done"

\* the statements of the try block, in order
NextStage(stage) ==
    CASE stage = "expand" -> "image"
      [] stage = "image" -> "model"
      [] stage = "model" -> "persist"
      [] stage = "persist" -> "commit"
      [] stage = "commit" -> "done"

\* an except block that tries the failed stage again
AfterExceptionRetry(stage) == stage

\* the except block returns: the run is over
AfterException(stage) == "done"

\* an error result that loses the message of the exception
ErrorResultUnknown(msg, session_id) ==
    [status |-> "error", error |-> "Unknown error", session_id |-> session_id]

ErrorResult(msg, session_id) ==
    [status |-> "error", error |-> msg, session_id |-> session_id]

SuccessResult(exp, ipath, mpath, session_id) ==
    [status |-> "success", prompt |-> exp, image_path |-> ipath,
     model_path |-> mpath, session_id |-> session_id]

PromptRecord(p, exp) == [original |-> p, expanded |-> exp]

ArtifactRecord(path, meta) == [path |-> path, metadata |-> meta]

\* a consolidated record whose model part repeats the image path
CreationRecordImageTwice(p, exp, ipath, mpath, mmeta) ==
    [prompt |-> PromptRecord(p, exp),
     image |-> ArtifactRecord(ipath, exp.style_hints),
     model |-> ArtifactRecord(ipath, mmeta)]

CreationRecord(p, exp, ipath, mpath, mmeta) ==
    [prompt |-> PromptRecord(p, exp),
     image |-> ArtifactRecord(ipath, exp.style_hints),
     model |-> ArtifactRecord(mpath, mmeta)]

InitState ==
    /\ session_memory = <<>>
    /\ db = EmptyDict
    /\ uncommitted = {}
    /\ files = <<>>
    /\ now = 0
    /\ pc = [s \in SessionIds |-> "idle"]
    /\ prompt = [s \in SessionIds |-> Unbound]
    /\ stub = [s \in SessionIds |-> NoneVal]
    /\ expanded = [s \in SessionIds |-> NoneVal]
    /\ img_path = [s \in SessionIds |-> Unbound]
    /\ model_path = [s \in SessionIds |-> Unbound]
    /\ model_result = [s \in SessionIds |-> NoneVal]
    /\ result = [s \in SessionIds |-> NoneVal]
    /\ calls = [s \in SessionIds |-> [image |-> 0, model |-> 0]]
    /\ listed = NoneVal
    /\ op = NoneVal

\* the globals of main after one config call that found a 'super-user'
\* configuration
AppIds == <<"text2img.node", "img2_3d.node">>
ConfigClass(app_ids) == [app_ids |-> app_ids]

UserIds == {"super-user", "guest"}

SavingConfigLog(uid) ==
    LogRecord("INFO", <<"Saving new config for user with id:'", uid, "'">>)
ModelNotFoundLog ==
    LogRecord("WARNING", <<"LLM model not found at ", "models/llama-2-7b.gguf",
                           ". Some features may be limited.">>)

Configured ==
    /\ log = (IF llm = "None" THEN <<ModelNotFoundLog>> ELSE <<>>)
                \o <<SavingConfigLog("super-user")>>
    /\ memory_handler = "handler"
    /\ llm_handler = llm
    /\ pipeline = "Pipeline"
    /\ configurations =
          [u \in UserIds |->
              IF u = "super-user" THEN ConfigClass(AppIds) ELSE NoneVal]
    /\ constructed =
          [memory |-> 1, llm |-> IF llm = "None" THEN 0 ELSE 1, pipeline |-> 1]
    /\ request = Unbound
    /\ user_config = NoneVal
    /\ message = Unbound
    /\ handle = [opened |-> TRUE, closes |-> 0]
    /\ proc = "running"

\* main.config builds the pipeline with llm_handler, which is still None when
\* the model file was missing
Init ==
    /\ llm \in {"None", "handler"}
    /\ InitState
    /\ Configured
    /\ exp_args = NoneVal
    /\ exp_ret = NoneVal

\* except Exception as e: log, return the error result.  logged holds the
\* records written before the exception reached the except block.
ExceptAfter(s, msg, logged) ==
    /\ log' = log \o logged \o <<PipelineErrorLog(msg)>>
    /\ result' = [result EXCEPT ![s] = ErrorResult(msg, s)]
    /\ pc' = [pc EXCEPT ![s] = AfterException(pc[s])]

Except(s, msg) == ExceptAfter(s, msg, <<>>)

\* the clock advances
Tick ==
    /\ now < MaxClock
    /\ now' = now + 1
    /\ UNCHANGED <<llm, session_memory, db, uncommitted, files, runvars, auxvars,
                   log, appvars>>

\* process(prompt, stub, session_id) is called
Start(s) ==
    /\ pc[s] = "idle"
    /\ \E st \in Stubs :
         /\ prompt' = [prompt EXCEPT ![s] = PromptOf(s)]
         /\ stub' = [stub EXCEPT ![s] = st]
    /\ pc' = [pc EXCEPT ![s] = "expand"]
    /\ UNCHANGED <<llm, memvars, expanded, img_path, model_path, model_result,
                   result, calls, auxvars, log, appvars>>

\* 1. expand the prompt, write prompt_<id>
Expand(s) ==
    /\ pc[s] = "expand"
    /\ IF llm = "None"
       THEN /\ Except(s, "'NoneType' object has no attribute 'expand_prompt'")
            /\ UNCHANGED <<expanded, session_memory>>
       ELSE \E r1 \in CreativeAnswers, r2 \in TechAnswers :
              LET exp == expand_prompt(prompt[s], r1, r2) IN
              /\ expanded' = [expanded EXCEPT ![s] = exp]
              /\ log' = log \o expand_prompt_log(r1, r2)
              /\ session_memory' =
                    save_session(session_memory, Key("prompt", s),
                                 PromptRecord(prompt[s], exp), now)
              /\ pc' = [pc EXCEPT ![s] = NextStage(pc[s])]
              /\ UNCHANGED result
    /\ UNCHANGED <<llm, db, uncommitted, files, now, prompt, stub, img_path,
                   model_path, model_result, calls, auxvars, appvars>>

\* 2. call the text-to-image service, store the image, write image_<id>
GenerateImage(s) ==
    /\ pc[s] = "image"
    /\ calls' = [calls EXCEPT ![s].image = @ + 1]
    /\ LET resp == stub[s].image IN
       IF resp.raises
       THEN /\ Except(s, resp.message)
            /\ UNCHANGED <<files, img_path, session_memory>>
       ELSE LET st == _save_temp_image(files, resp.image) IN
            /\ files' = st.files
            /\ IF st.raised
               THEN /\ ExceptAfter(s, st.message,
                                    <<SaveImageErrorLog(st.message)>>)
                    /\ UNCHANGED <<img_path, session_memory>>
               ELSE /\ img_path' = [img_path EXCEPT ![s] = st.path]
                    /\ session_memory' =
                          save_session(session_memory, Key("image", s),
                              ArtifactRecord(st.path, expanded[s].style_hints), now)
                    /\ pc' = [pc EXCEPT ![s] = NextStage(pc[s])]
                    /\ UNCHANGED <<result, log>>
    /\ UNCHANGED <<llm, db, uncommitted, now, prompt, stub, expanded, model_path,
                   model_result, auxvars, appvars>>

\* 3. call the image-to-3D service, store the model, write model_<id>
GenerateModel(s) ==
    /\ pc[s] = "model"
    /\ calls' = [calls EXCEPT ![s].model = @ + 1]
    /\ LET resp == stub[s].model IN
       IF resp.raises
       THEN /\ Except(s, resp.message)
            /\ UNCHANGED <<files, model_path, model_result, session_memory>>
       ELSE LET st == _save_temp_model(files, resp.model) IN
            /\ files' = st.files
            /\ model_result' = [model_result EXCEPT ![s] = resp]
            /\ IF st.raised
               THEN /\ ExceptAfter(s, st.message,
                                    <<SaveModelErrorLog(st.message)>>)
                    /\ UNCHANGED <<model_path, session_memory>>
               ELSE /\ model_path' = [model_path EXCEPT ![s] = st.path]
                    /\ session_memory' =
                          save_session(session_memory, Key("model", s),
                              ArtifactRecord(st.path, GetMetadata(resp)), now)
                    /\ pc' = [pc EXCEPT ![s] = NextStage(pc[s])]
                    /\ UNCHANGED <<result, log>>
    /\ UNCHANGED <<llm, db, uncommitted, now, prompt, stub, expanded, img_path,
                   auxvars, appvars>>

\* 4. save_persistent, first statement: self.db[key] = {data, timestamp}
PersistWrite(s) ==
    /\ pc[s] = "persist"
    /\ \E ok \in BOOLEAN :
         /\ db' = DbSetItem(db, Key("creation", s),
                     [data |-> CreationRecord(prompt[s], expanded[s], img_path[s],
                                  model_path[s], GetMetadata(model_result[s])),
                      timestamp |-> IsoFormat(now)], ok)
         /\ uncommitted' = DbDirty(uncommitted, Key("creation", s), ok)
         /\ IF ok
            THEN pc' = [pc EXCEPT ![s] = NextStage(pc[s])] /\ UNCHANGED <<result, log>>
            ELSE Except(s, "database write failed")
    /\ UNCHANGED <<llm, session_memory, files, now, prompt, stub, expanded,
                   img_path, model_path, model_result, calls, auxvars, appvars>>

\* self.db.commit(): what is left uncommitted; a commit that raises flushes
\* nothing
DbCommit(unc, ok) == IF ok THEN {} ELSE unc

\* save_persistent, second statement: self.db.commit(), then process returns
\* the success result.  With autocommit the write above is already in the
\* table; when commit() raises, the except block of process returns the
\* error result and the record stays.
CommitReturn(s) ==
    /\ pc[s] = "commit"
    /\ \E ok \in BOOLEAN :
         /\ uncommitted' = DbCommit(uncommitted, ok)
         /\ IF ok
            THEN /\ result' = [result EXCEPT ![s] =
                       SuccessResult(expanded[s], img_path[s], model_path[s], s)]
                 /\ pc' = [pc EXCEPT ![s] = NextStage(pc[s])]
                 /\ UNCHANGED log
            ELSE Except(s, "database commit failed")
    /\ UNCHANGED <<llm, session_memory, db, files, now, prompt, stub, expanded,
                   img_path, model_path, model_result, calls, auxvars, appvars>>

Next ==
    \/ Tick
    \/ \E s \in SessionIds : Start(s)
    \/ \E s \in SessionIds : Expand(s)
    \/ \E s \in SessionIds : GenerateImage(s)
    \/ \E s \in SessionIds : GenerateModel(s)
    \/ \E s \in SessionIds : PersistWrite(s)
    \/ \E s \in SessionIds : CommitReturn(s)

Spec == Init /\ [][Next]_vars

TypeOK == \A s \in SessionIds : pc[s] \in
    {"idle", "expand", "image", "model", "persist", "commit", "done"}

-----------------------------------------------------------------------------
(* The memory handler on its own: any sequence of its session-tier calls.  *)

MemKeys == {Key("prompt", "s1"), Key("image", "s1"), Key("prompt", "s2")}
MemData == {ArtifactRecord(TempName(<<>>, ImageSuffix), EmptyDict),
            PromptRecord(P_dog, ExpandFallback(P_dog))}

MemSave ==
    /\ \E k \in MemKeys, d \in MemData :
         session_memory' = save_session(session_memory, k, d, now)
    /\ listed' = NoneVal
    /\ UNCHANGED <<llm, db, uncommitted, files, now, runvars, exp_args, exp_ret, op, log, appvars>>

MemClear ==
    /\ session_memory' = clear_session(session_memory)
    /\ listed' = NoneVal
    /\ UNCHANGED <<llm, db, uncommitted, files, now, runvars, exp_args, exp_ret, op, log, appvars>>

MemList ==
    /\ \E n \in (0 - MaxN)..MaxN :
         listed' = [n |-> n, out |-> list_recent_sessions(session_memory, n)]
    /\ UNCHANGED <<llm, memvars, runvars, exp_args, exp_ret, op, log, appvars>>

NextMem ==
    \/ Tick
    \/ MemSave
    \/ MemClear
    \/ MemList

SpecMem == Init /\ [][NextMem]_vars

-----------------------------------------------------------------------------
(* Both tiers of the memory handler used by one client: any sequence of    *)
(* save_session, save_persistent and clear_session calls.  op records the  *)
(* last call: its name, key, data, whether it raised, and what the reader  *)
(* of its tier returned for the key just before the call.                  *)

StoreSessionKeys == {Key("prompt", "s1"), Key("image", "s2")}
StorePersistentKeys == {Key("creation", "s1"), Key("creation", "s2")}

Call(name, key, data, raised, before) ==
    [name |-> name, key |-> key, data |-> data, raised |-> raised,
     before |-> before, returned |-> TRUE]

\* the client is not inside a call
Idle == IF op = NoneVal THEN TRUE ELSE op.returned

StoreSaveSession ==
    /\ Idle
    /\ \E k \in StoreSessionKeys, d \in MemData :
         /\ session_memory' = save_session(session_memory, k, d, now)
         /\ op' = Call("save_session", k, d, FALSE, get_session(session_memory, k))
    /\ UNCHANGED <<llm, db, uncommitted, files, now, runvars, listed, exp_args,
                   exp_ret, log, appvars>>

\* save_persistent, first statement: the write.  When it raises the call is
\* over; otherwise the call goes on to commit().
StoreSavePersistent ==
    /\ Idle
    /\ \E k \in StorePersistentKeys, d \in MemData, ok \in BOOLEAN :
         /\ db' = save_persistent(db, k, d, now, ok)
         /\ uncommitted' = DbDirty(uncommitted, k, ok)
         /\ op' = [Call("save_persistent", k, d, ~ok, get_persistent(db, k))
                      EXCEPT !.returned = ~ok]
    /\ UNCHANGED <<llm, session_memory, files, now, runvars, listed, exp_args,
                   exp_ret, log, appvars>>

\* save_persistent, second statement: self.db.commit().  When it raises the
\* call raises and the record written by the first statement stays.
StoreCommit ==
    /\ ~Idle
    /\ \E ok \in BOOLEAN :
         /\ uncommitted' = DbCommit(uncommitted, ok)
         /\ op' = [op EXCEPT !.returned = TRUE, !.raised = ~ok]
    /\ UNCHANGED <<llm, session_memory, db, files, now, runvars, listed,
                   exp_args, exp_ret, log, appvars>>

StoreClear ==
    /\ Idle
    /\ session_memory' = clear_session(session_memory)
    /\ op' = Call("clear_session", <<>>, NoneVal, FALSE,
                  [entries |-> Len(session_memory)])
    /\ UNCHANGED <<llm, db, uncommitted, files, now, runvars, listed, exp_args,
                   exp_ret, log, appvars>>

NextStore ==
    \/ Tick
    \/ StoreSaveSession
    \/ StoreSavePersistent
    \/ StoreCommit
    \/ StoreClear

SpecStore == Init /\ [][NextStore]_vars

-----------------------------------------------------------------------------
(* LLMHandler.expand_prompt on its own: one call per behaviour.            *)

InitExpand ==
    /\ llm = "handler"
    /\ InitState
    /\ Configured
    /\ exp_args \in ExpandInputs
    /\ exp_ret = NoneVal

ExpandCall ==
    /\ exp_ret = NoneVal
    /\ exp_ret' = expand_prompt(exp_args.p, exp_args.r1, exp_args.r2)
    /\ log' = log \o expand_prompt_log(exp_args.r1, exp_args.r2)
    /\ UNCHANGED <<llm, memvars, runvars, listed, exp_args, op, appvars>>

NextExpand == ExpandCall

SpecExpand == InitExpand /\ [][NextExpand]_vars

-----------------------------------------------------------------------------
(* main.py: the config and execute callbacks and the end of the process.   *)

\* the module globals right after import
InitApp ==
    /\ llm = "None"
    /\ InitState
    /\ log = <<>>
    /\ memory_handler = "None"
    /\ llm_handler = "None"
    /\ pipeline = "None"
    /\ configurations = [u \in UserIds |-> NoneVal]
    /\ constructed = [memory |-> 0, llm |-> 0, pipeline |-> 0]
    /\ request = Unbound
    /\ user_config = NoneVal
    /\ message = Unbound
    /\ handle = [opened |-> FALSE, closes |-> 0]
    /\ proc = "running"
    /\ exp_args = NoneVal
    /\ exp_ret = NoneVal

\* the configuration argument of config: a dict, as its items in order
Item(uid, conf) == [uid |-> uid, conf |-> conf]
ConfigurationInputs ==
    { <<>>,
      <<Item("super-user", ConfigClass(AppIds))>>,
      <<Item("super-user", ConfigClass(<<>>))>>,
      <<Item("guest", ConfigClass(AppIds)), Item("super-user", ConfigClass(AppIds))>> }

\* what LLMHandler(model_path) does: the file is there and loads, the file
\* is missing (FileNotFoundError), or Llama(...) raises on it
ModelFiles == {"found", "missing", "broken"}

\* for uid, conf in configuration.items(): configurations[uid] = conf
RECURSIVE SaveConfigurations(_, _)
SaveConfigurations(confs, items) ==
    IF items = <<>> THEN confs
    ELSE SaveConfigurations([confs EXCEPT ![Head(items).uid] = Head(items).conf],
                            Tail(items))

\* config(configuration, state).  db_ok = FALSE: SqliteDict(...) raises, and
\* so do MemoryHandler(...) and config; the object that was being built has
\* no db attribute, its __del__ closes nothing.
Config(items, db_ok, model) ==
    /\ proc = "running"
    /\ Len(log) + Len(items) + 1 <= MaxLog
    /\ IF memory_handler = "None" /\ ~db_ok
       THEN UNCHANGED <<llm, memory_handler, llm_handler, pipeline,
                        configurations, constructed, handle, log>>
       ELSE LET fresh == memory_handler = "None"
                mh_built == [constructed EXCEPT !.memory = IF fresh THEN @ + 1 ELSE @]
            IN
            /\ memory_handler' = "handler"
            /\ handle' = IF fresh THEN [opened |-> TRUE, closes |-> 0] ELSE handle
            /\ IF llm_handler = "None" /\ model = "broken"
               THEN /\ constructed' = mh_built
                    /\ UNCHANGED <<llm, llm_handler, pipeline, configurations, log>>
               ELSE LET lh == IF llm_handler = "None" /\ model = "found"
                              THEN "handler" ELSE llm_handler
                        warned == IF llm_handler = "None" /\ model = "missing"
                                  THEN <<ModelNotFoundLog>> ELSE <<>>
                    IN
                    /\ llm_handler' = lh
                    /\ pipeline' = "Pipeline"
                    /\ llm' = IF pipeline = "None" THEN lh ELSE llm
                    /\ constructed' =
                          [mh_built EXCEPT
                              !.llm = IF lh # llm_handler THEN @ + 1 ELSE @,
                              !.pipeline = IF pipeline = "None" THEN @ + 1 ELSE @]
                    /\ configurations' = SaveConfigurations(configurations, items)
                    /\ log' = log \o warned \o
                              [i \in 1..Len(items) |-> SavingConfigLog(items[i].uid)]
    /\ UNCHANGED <<memvars, runvars, auxvars, request, user_config, message, proc>>

\* pipeline.process(...) called without await: process is an async def, the
\* call runs none of its body and returns a coroutine object
Coroutine == [type |-> "coroutine"]
CoroutineNotSubscriptable == "'coroutine' object is not subscriptable"
NoProcessAttribute == "'NoneType' object has no attribute 'process'"

Msg_NoPrompt == <<"Error: No prompt provided">>
Msg_NoConfig == <<"Error: No valid configuration found">>
ErrorProcessing(e) == <<"Error processing request: ", e>>
ErrorInPipeline(e) == <<"Error in pipeline: ", e>>
\* os.path.basename: the pieces of the path after its last separator
RECURSIVE basename(_)
basename(path) ==
    IF path = <<>> THEN <<>>
    ELSE IF path[Len(path)] = "/" THEN <<>>
    ELSE Append(basename(SubSeq(path, 1, Len(path) - 1)), path[Len(path)])

SuccessText(session_id, res) ==
    <<"Successfully processed your request!\n",
      "Session ID: ", session_id, "\n",
      "Enhanced prompt: ", SlicePrefix(res.prompt.expanded_prompt, 200), "...\n",
      "Generated assets:\n",
      "- Image: ", basename(res.image_path), "\n",
      "- 3D Model: ", basename(res.model_path)>>

\* result.get('error', 'Unknown error')
GetError(res) == IF "error" \in DOMAIN res THEN res.error ELSE "Unknown error"

\* lines 96-111 of execute on the value bound to result
ResponseOf(res, session_id) ==
    IF res = Coroutine
    THEN [raised |-> TRUE, message |-> CoroutineNotSubscriptable]
    ELSE [raised |-> FALSE,
          text |-> IF res.status = "success" THEN SuccessText(session_id, res)
                   ELSE ErrorInPipeline(GetError(res))]

ExecutionErrorLog(e) == LogRecord("ERROR", <<"Pipeline execution error: ", e>>)

ExecPrompts == {<<>>, P_dog}

\* execute(model)
Execute(p) ==
    /\ proc = "running"
    /\ Len(log) < MaxLog
    /\ request' = p
    /\ IF p = <<>>
       THEN /\ message' = Msg_NoPrompt
            /\ UNCHANGED <<user_config, log>>
       ELSE LET uc == configurations["super-user"] IN
            /\ user_config' = uc
            /\ IF uc = NoneVal \/ uc.app_ids = <<>>
               THEN /\ message' = Msg_NoConfig
                    /\ UNCHANGED log
               ELSE LET r == IF pipeline = "None"
                             THEN [raised |-> TRUE, message |-> NoProcessAttribute]
                             ELSE ResponseOf(Coroutine, "uuid")
                    IN IF r.raised
                       THEN /\ log' = Append(log, ExecutionErrorLog(r.message))
                            /\ message' = ErrorProcessing(r.message)
                       ELSE /\ message' = r.text
                            /\ UNCHANGED log
    /\ UNCHANGED <<llm, memvars, runvars, auxvars, memory_handler, llm_handler,
                   pipeline, configurations, constructed, handle, proc>>

\* MemoryHandler.__del__: closes the handle when the object has one
MemoryHandler_del(h) == IF h.opened THEN [h EXCEPT !.closes = @ + 1] ELSE h

\* the process ends.  The handler is only referenced by the module global,
\* so its __del__ can run at interpreter shutdown at the earliest, and it does
\* not run when the process is torn down without a clean shutdown.
Exit ==
    /\ proc = "running"
    /\ proc' = "exited"
    /\ \E finalized \in BOOLEAN :
         handle' = IF memory_handler = "handler" /\ finalized
                   THEN MemoryHandler_del(handle) ELSE handle
    /\ UNCHANGED <<llm, memvars, runvars, auxvars, log, memory_handler,
                   llm_handler, pipeline, configurations, constructed, request,
                   user_config, message>>

NextApp ==
    \/ \E items \in ConfigurationInputs, db_ok \in BOOLEAN, model \in ModelFiles :
          Config(items, db_ok, model)
    \/ \E p \in ExecPrompts : Execute(p)
    \/ Exit

SpecApp == InitApp /\ [][NextApp]_vars

-----------------------------------------------------------------------------
(* Properties of the pipeline runs (specification Spec)                    *)

Done(s) == pc[s] = "done"
Failed(s) == Done(s) /\ result[s].status = "error"
Succeeded(s) == Done(s) /\ result[s].status = "success"
SessionRecord(prefix, s) == get_session(session_memory, Key(prefix, s))
Creation(s) == get_persistent(db, Key("creation", s))

\* C1: a run that returned status 'error' (it failed at GenerateImage,
\* GenerateModel or Persist) has left no persistent record creation_<id>:
\* get_persistent('creation_<id>') is None.
C1_NoRecordAfterFailure ==
    \A s \in SessionIds : Failed(s) => Creation(s) = NoneVal

\* C2: when a run has returned status 'success' for session id s, the session
\* tier holds prompt_<s>, image_<s> and model_<s>, the persistent tier holds
\* creation_<s>, and the returned image_path and model_path are the paths
\* stored in image_<s>, model_<s> and in the creation_<s> record.
C2_SuccessRecords ==
    \A s \in SessionIds : Succeeded(s) =>
        /\ SessionRecord("prompt", s) # NoneVal
        /\ SessionRecord("image", s) # NoneVal
        /\ SessionRecord("model", s) # NoneVal
        /\ Creation(s) # NoneVal
        /\ result[s].session_id = s
        /\ result[s].image_path # Unbound
        /\ result[s].model_path # Unbound
        /\ result[s].image_path = SessionRecord("image", s).path
        /\ result[s].model_path = SessionRecord("model", s).path
        /\ result[s].image_path = Creation(s).image.path
        /\ result[s].model_path = Creation(s).model.path

\* a run returned success with an image and a model written from base64 text
C2_Witness ==
    \E s \in SessionIds :
        /\ Succeeded(s)
        /\ stub[s].image.image.type = "str"
        /\ Len(files) >= 2
        /\ Creation(s).model.metadata = Meta1

\* C3: when the image-generation service call raises in the run for session
\* id s, the run returns status 'error' with the message of the exception and
\* the session id s, no creation_<s> record exists, the prompt_<s> session
\* record of the Expand stage exists, and no image_<s> or model_<s> session
\* record is written.
C3_ImageServiceRaises ==
    \A s \in SessionIds :
        (Done(s) /\ calls[s].image = 1 /\ stub[s].image.raises) =>
            /\ result[s] = [status |-> "error", error |-> stub[s].image.message,
                            session_id |-> s]
            /\ Creation(s) = NoneVal
            /\ SessionRecord("prompt", s) # NoneVal
            /\ SessionRecord("prompt", s).original = prompt[s]
            /\ SessionRecord("image", s) = NoneVal
            /\ SessionRecord("model", s) = NoneVal
            /\ calls[s].model = 0

\* the image service was called once, raised, and the run is over
C3_Witness ==
    \E s \in SessionIds :
        /\ Done(s)
        /\ calls[s].image = 1
        /\ stub[s].image.raises
        /\ result[s].error = "text2img down"

\* both services of a stub answer and their payloads can be stored
StubSucceeds(st) ==
    /\ ~st.image.raises
    /\ ~st.model.raises
    /\ ~_save_temp_image(<<>>, st.image.image).raised
    /\ ~_save_temp_model(<<>>, st.model.model).raised

\* C4: the Expand stage cannot fail: with the local language model
\* unavailable (no LLM handler was constructed) and both services succeeding,
\* a run writes prompt_<id>, goes through the remaining stages and returns
\* status 'success' with expanded_prompt equal to the original prompt.
C4_ExpandCannotFail ==
    \A s \in SessionIds :
        (llm = "None" /\ Done(s) /\ StubSucceeds(stub[s])) =>
            /\ result[s].status = "success"
            /\ result[s].prompt.expanded_prompt = prompt[s]
            /\ SessionRecord("prompt", s) # NoneVal
            /\ Creation(s) # NoneVal

-----------------------------------------------------------------------------
(* Properties of expand_prompt (specification SpecExpand)                  *)

AllSpace(text) == \A i \in 1..Len(text) : IsSpace(text[i])

\* out is text without its leading and trailing white space
IsStripOf(out, text) ==
    /\ \E i, j \in 0..Len(text) :
         /\ i + j <= Len(text)
         /\ out = SubSeq(text, i + 1, Len(text) - j)
         /\ AllSpace(SubSeq(text, 1, i))
         /\ AllSpace(SubSeq(text, Len(text) - j + 1, Len(text)))
    /\ out # <<>> => ~IsSpace(out[1]) /\ ~IsSpace(out[Len(out)])

\* C5: expand_prompt always returns an expansion: when either of its two
\* model calls fails it is exactly {expanded_prompt: prompt, style_hints: {},
\* technical_params: ''} (the answer of a first call that succeeded is
\* dropped), otherwise it is the stripped expansion text, the lighting and
\* composition hints of that text and the stripped technical text.
C5_ExpandFailsOpen ==
    exp_ret # NoneVal =>
        /\ DOMAIN exp_ret = {"expanded_prompt", "style_hints", "technical_params"}
        /\ IF ~exp_args.r1.ok \/ ~exp_args.r2.ok
           THEN /\ exp_ret.expanded_prompt = exp_args.p
                /\ exp_ret.style_hints = EmptyDict
                /\ exp_ret.technical_params = <<>>
           ELSE /\ IsStripOf(exp_ret.expanded_prompt, exp_args.r1.text)
                /\ IsStripOf(exp_ret.technical_params, exp_args.r2.text)
                /\ DOMAIN exp_ret.style_hints = {"lighting", "composition"}
                /\ exp_ret.style_hints.lighting = _extract_lighting(exp_args.r1.text)
                /\ exp_ret.style_hints.composition =
                      _extract_composition(exp_args.r1.text)

\* the first call answered, the second raised, and the call returned the
\* prompt with its leading blank
C5_Witness ==
    /\ exp_ret # NoneVal
    /\ exp_args.r1.ok
    /\ exp_args.r1.text = T_sunny
    /\ ~exp_args.r2.ok
    /\ exp_args.p = P_castle
    /\ exp_ret.expanded_prompt = P_castle

-----------------------------------------------------------------------------
(* Properties of concurrent runs (specification Spec)                      *)

Stages == {"prompt", "image", "model"}

\* the entries that belong to session id s, with their timestamps
EntriesOf(s) ==
    [k \in Stages \cup {"creation"} |->
        IF k = "creation" THEN DbGet(db, Key(k, s))
        ELSE DictGet(session_memory, Key(k, s))]

C6_Records ==
    \A s, t \in SessionIds : (s # t /\ Succeeded(s) /\ Succeeded(t)) =>
        /\ Creation(s) # NoneVal
        /\ Creation(t) # NoneVal
        /\ Creation(s).prompt.original = prompt[s]
        /\ Creation(s).prompt.expanded = result[s].prompt
        /\ Creation(s).image.path = result[s].image_path
        /\ Creation(s).model.path = result[s].model_path
        /\ {result[s].image_path, result[s].model_path}
              \cap {result[t].image_path, result[t].model_path} = {}

C6_Step ==
    (session_memory' # session_memory \/ db' # db) => \A s \in SessionIds : pc'[s] = pc[s] => EntriesOf(s)' = EntriesOf(s)

\* C6: in any interleaving of two runs with distinct session ids on one
\* MemoryHandler, when both return success both creation_<id> records exist,
\* each holds its own run's prompt, image path and model path, and no step
\* of one run changes a session or persistent record of the other.
C6_NonInterference == [](C6_Records) /\ [][C6_Step]_vars

\* both runs succeeded with different prompts and their stages interleaved
C6_Witness ==
    /\ \A s \in SessionIds : Succeeded(s)
    /\ prompt["s1"] # prompt["s2"]
    /\ Len(session_memory) = 6
    /\ session_memory[1].key = Key("prompt", "s2")
    /\ session_memory[2].key = Key("prompt", "s1")
    /\ session_memory[3].key = Key("image", "s1")
    /\ session_memory[4].key = Key("image", "s2")

\* C7: stage boundaries.  The image service is called only after prompt_<s>
\* was written, the model service only after image_<s>, save_persistent only
\* after model_<s>; so image_<s> present implies prompt_<s> present, model_<s>
\* implies image_<s>, and creation_<s> implies model_<s>.
C7_StageBoundary ==
    \A s \in SessionIds :
        /\ calls[s].image > 0 => SessionRecord("prompt", s) # NoneVal
        /\ calls[s].model > 0 => SessionRecord("image", s) # NoneVal
        /\ pc[s] \in {"persist", "commit"} => SessionRecord("model", s) # NoneVal
        /\ SessionRecord("image", s) # NoneVal => SessionRecord("prompt", s) # NoneVal
        /\ SessionRecord("model", s) # NoneVal => SessionRecord("image", s) # NoneVal
        /\ Creation(s) # NoneVal => SessionRecord("model", s) # NoneVal

\* one run has persisted its record while the other is between its image
\* and model stages
C7_Witness ==
    \E s, t \in SessionIds :
        /\ Creation(s) # NoneVal
        /\ pc[t] = "model"
        /\ SessionRecord("image", t) # NoneVal
        /\ SessionRecord("model", t) = NoneVal

HasFailed(s) == result[s] # NoneVal /\ result[s].status = "error"

C8_Step ==
    (\E s \in SessionIds : HasFailed(s) \/ HasFailed(s)') => \A s \in SessionIds :
        \* nothing is done after the failure
        /\ HasFailed(s) =>
              /\ pc'[s] = "done"
              /\ result'[s] = result[s]
              /\ calls'[s] = calls[s]
              /\ EntriesOf(s)' = EntriesOf(s)
        \* and the step that fails writes no record
        /\ (~HasFailed(s) /\ HasFailed(s)') => EntriesOf(s)' = EntriesOf(s)

\* C8: fail-fast without retries.  A run calls each service at most once,
\* and from its first fatal failure on it makes no service call and writes
\* no session or persistent record: it returns the error result.
C8_FailFast ==
    /\ [](\A s \in SessionIds : calls[s].image <= 1 /\ calls[s].model <= 1)
    /\ [](\A s \in SessionIds : HasFailed(s) => pc[s] = "done")
    /\ [][C8_Step]_vars

\* a run failed storing the model after its image stage, and the other run
\* went on to persist
C8_Witness ==
    \E s, t \in SessionIds :
        /\ Failed(s)
        /\ result[s].error = "Incorrect padding"
        /\ calls[s] = [image |-> 1, model |-> 1]
        /\ pc[t] = "commit"

\* C9: get_persistent('creation_<id>') is None or a complete record with the
\* prompt, image and model of the run for <id>, in every state, also between
\* the two statements of save_persistent; nothing written is left uncommitted.
C9_AbsentOrComplete ==
    /\ uncommitted = {}
    /\ \A s \in SessionIds :
          \/ Creation(s) = NoneVal
          \/ /\ DOMAIN Creation(s) = {"prompt", "image", "model"}
             /\ Creation(s).prompt = [original |-> prompt[s], expanded |-> expanded[s]]
             /\ expanded[s] # NoneVal
             /\ img_path[s] # Unbound
             /\ model_path[s] # Unbound
             /\ Creation(s).image.path = img_path[s]
             /\ Creation(s).model.path = model_path[s]
             /\ DbGet(db, Key("creation", s)).timestamp \in
                   {IsoFormat(t) : t \in 0..now}

\* one run is between the write and the commit while the other is about to
\* write
C9_Witness ==
    \E s, t \in SessionIds :
        /\ pc[s] = "commit"
        /\ Creation(s) # NoneVal
        /\ pc[t] = "persist"
        /\ Creation(t) = NoneVal

-----------------------------------------------------------------------------
(* Properties of list_recent_sessions (specification SpecMem)              *)

Stamp(e) == e.value.timestamp

Ordered(out) ==
    \A i, j \in 1..Len(out) : i < j => ~StrLess(Stamp(out[i]), Stamp(out[j]))

\* out holds entries of mem, each at most once, and none of the entries left
\* out is more recent than one returned
MostRecent(out, mem) ==
    /\ \A i \in 1..Len(out) : \E k \in 1..Len(mem) : mem[k] = out[i]
    /\ \A i, j \in 1..Len(out) : i # j => out[i].key # out[j].key
    /\ \A i \in 1..Len(out), k \in 1..Len(mem) :
          mem[k].key \notin DictKeys(out) => ~StrLess(Stamp(out[i]), Stamp(mem[k]))

\* C10 as stated: for every integer n, list_recent_sessions(n) returns at
\* most n entries, in non-increasing timestamp order, none older than an
\* entry left out.
C10_Original ==
    listed # NoneVal =>
        /\ Len(listed.out) <= listed.n
        /\ Ordered(listed.out)
        /\ MostRecent(listed.out, session_memory)

\* C10 amended: for every n >= 0 it returns at most n entries (for n < 0 the
\* slice drops the -n oldest entries instead); for every n the entries
\* returned are in non-increasing timestamp order and none is older than an
\* entry left out.
C10_Amended ==
    listed # NoneVal =>
        /\ listed.n >= 0 => Len(listed.out) <= listed.n
        /\ listed.n < 0 =>
              Len(listed.out) = IF Len(session_memory) + listed.n > 0
                                THEN Len(session_memory) + listed.n ELSE 0
        /\ Ordered(listed.out)
        /\ MostRecent(listed.out, session_memory)

\* two of three entries were asked for, and the most recent one is the key
\* that was inserted first and written again later
C10_Witness ==
    /\ listed # NoneVal
    /\ listed.n = 2
    /\ Len(session_memory) = 3
    /\ Len(listed.out) = 2
    /\ listed.out[1].key = session_memory[1].key
    /\ StrLess(Stamp(listed.out[2]), Stamp(listed.out[1]))

-----------------------------------------------------------------------------
(* Properties of the two tiers (specification SpecStore)                   *)

C11_Step ==
    \A k \in StorePersistentKeys :
        get_persistent(db', k) # get_persistent(db, k) =>
            /\ op'.name = "save_persistent"
            /\ op'.key = k
            /\ ~op'.raised
            /\ ~op'.returned
            /\ get_persistent(db', k) = op'.data

\* C11: persistent round trip.  A key that was never written reads as None;
\* after save_persistent(k, v) has returned, get_persistent(k) is v, and it
\* stays v until the next save_persistent on k: what get_persistent returns
\* for a key changes only in the write of a save_persistent call on that very
\* key, before its commit(), and then to the value of that call.
C11_RoundTrip ==
    /\ \A k \in StorePersistentKeys : get_persistent(db, k) = NoneVal
    /\ [](op # NoneVal /\ op.name = "save_persistent" /\ ~op.raised =>
            get_persistent(db, op.key) = op.data)
    /\ [][C11_Step]_vars

\* a key was written again with another value while the other key keeps an
\* older record
C11_Witness ==
    /\ op # NoneVal
    /\ op.name = "save_persistent"
    /\ op.returned
    /\ ~op.raised
    /\ op.before # NoneVal
    /\ op.before # op.data
    /\ \E k \in StorePersistentKeys :
          /\ k # op.key
          /\ get_persistent(db, k) # NoneVal
          /\ get_persistent(db, k) # op.data

C12_Step ==
    /\ \A k \in StoreSessionKeys :
          DictGet(session_memory', k) # DictGet(session_memory, k) =>
              \/ op'.name = "save_session" /\ op'.key = k
              \/ op'.name = "clear_session"
    /\ (/\ op' # NoneVal
        /\ op'.name = "save_session"
        /\ (op' # op \/ session_memory' # session_memory)) =>
            /\ ~op'.raised
            /\ DictGet(session_memory', op'.key) =
                  [data |-> op'.data, timestamp |-> IsoFormat(now)]
            /\ get_session(session_memory', op'.key) = op'.data
            /\ \A k \in StoreSessionKeys \ {op'.key} :
                  DictGet(session_memory', k) = DictGet(session_memory, k)

\* C12: the session tier is last-write-wins.  A key never written reads as
\* None; save_session(k, d) does not raise, and when it returns get_session(k)
\* is d, stamped with the time of that call, whatever was stored under k
\* before, while the entry of every other key is left as it was; an entry
\* changes in no other call but clear_session.
C12_LastWriteWins ==
    /\ \A k \in StoreSessionKeys : get_session(session_memory, k) = NoneVal
    /\ [](op # NoneVal /\ op.name = "save_session" =>
            get_session(session_memory, op.key) = op.data)
    /\ [][C12_Step]_vars

\* a key was written a second time, later and with other data, while the
\* other key keeps its older entry
C12_Witness ==
    /\ op # NoneVal
    /\ op.name = "save_session"
    /\ op.before # NoneVal
    /\ op.before # op.data
    /\ Len(session_memory) = 2
    /\ session_memory[1].key = op.key
    /\ StrLess(Stamp(session_memory[2]), Stamp(session_memory[1]))

-----------------------------------------------------------------------------
(* Properties of failures and artifacts (specification Spec)               *)

\* the stage in which a failed run raised
FailedStage(s) ==
    IF calls[s].image = 0 THEN "expand"
    ELSE IF img_path[s] = Unbound THEN "image"
    ELSE IF model_path[s] = Unbound THEN "model"
    ELSE "persist"

\* a piece of the logged text is x
Mentions(text, x) == \E i \in 1..Len(text) : text[i] = x

\* the logged text names the stage
NamesStage(text, stage) ==
    \/ Mentions(text, stage)
    \/ stage = "image" /\ Mentions(text, "Error saving image: ")
    \/ stage = "model" /\ Mentions(text, "Error saving model: ")

\* C13: every fatal failure of a run (a service call, an artifact decode or
\* write, or the persistent write raising) is returned as status 'error'
\* with the message of the exception and the session id, and has a log
\* record that gives the session id of the run and the stage that failed.
C13_FailuresLogged ==
    \A s \in SessionIds :
        (HasFailed(s) /\ FailedStage(s) # "expand") =>
            /\ result[s] = ErrorResult(result[s].error, s)
            /\ \E i \in 1..Len(log) :
                  /\ log[i].level = "ERROR"
                  /\ Mentions(log[i].text, result[s].error)
                  /\ Mentions(log[i].text, s)
                  /\ NamesStage(log[i].text, FailedStage(s))

\* path.endswith(suffix)
EndsWith(path, suffix) == path # <<>> /\ path[Len(path)] = suffix

\* the locators the store calls of the runs have returned, as (run, kind)
Returned ==
    {<<s, "image">> : s \in {t \in SessionIds : img_path[t] # Unbound}}
        \cup {<<s, "model">> : s \in {t \in SessionIds : model_path[t] # Unbound}}

Locator(c) == IF c[2] = "image" THEN img_path[c[1]] ELSE model_path[c[1]]

\* C14: every locator returned by _save_temp_image ends in .png and every
\* one returned by _save_temp_model ends in .glb; no two store calls, of one
\* run or of two concurrent runs, return the same locator, and each locator
\* names one file; so a successful result has an image_path ending in .png, a
\* model_path ending in .glb, and the two differ.
C14_FreshTypedLocators ==
    /\ \A c \in Returned :
          /\ EndsWith(Locator(c), IF c[2] = "image" THEN ".png" ELSE ".glb")
          /\ Cardinality({i \in 1..Len(files) : files[i].name = Locator(c)}) = 1
    /\ \A c, d \in Returned : c # d => Locator(c) # Locator(d)
    /\ \A s \in SessionIds : Succeeded(s) =>
          /\ EndsWith(result[s].image_path, ".png")
          /\ EndsWith(result[s].model_path, ".glb")
          /\ result[s].image_path # result[s].model_path
          /\ <<s, "image">> \in Returned /\ result[s].image_path = img_path[s]
          /\ <<s, "model">> \in Returned /\ result[s].model_path = model_path[s]

\* one run succeeded, the other stored its image after a store call of the
\* first and then failed decoding its model
C14_Witness ==
    \E s, t \in SessionIds :
        /\ Succeeded(s)
        /\ Failed(t)
        /\ Cardinality(Returned) = 3
        /\ Len(files) = 4
        /\ files[2].name = img_path[t]

\* C15: artifact locations correspond one to one to the generation stages
\* that succeeded: a stage that succeeds creates exactly one location, a
\* stage that fails, also by a base64 payload that does not decode, creates
\* none, and a location is written once, by the store call that created it.
C15_OneArtifactPerStage ==
    /\ Len(files) = Cardinality(Returned)
    /\ \A i \in 1..Len(files) :
          /\ files[i].writes = 1
          /\ \E c \in Returned : Locator(c) = files[i].name

C18_Step ==
    (/\ op' # NoneVal
     /\ op'.name = "clear_session"
     /\ (op' # op \/ session_memory' # session_memory)) =>
        /\ \A k \in StoreSessionKeys \cup MemKeys :
              get_session(session_memory', k) = NoneVal
        /\ \A n \in (0 - MaxN)..MaxN :
              list_recent_sessions(session_memory', n) = <<>>
        /\ db' = db
        /\ \A k \in StorePersistentKeys :
              get_persistent(db', k) = get_persistent(db, k)

\* C18: clear_session empties the session tier and nothing else.  When it
\* returns, get_session is None for every key, whichever session id the key
\* belongs to, and list_recent_sessions(n) is empty for every n, until the
\* next save_session; get_persistent(k) is what it was before, for every k.
C18_ClearSession ==
    /\ [](op # NoneVal /\ op.name = "clear_session" =>
            /\ session_memory = <<>>
            /\ DictKeys(session_memory) = {})
    /\ [][C18_Step]_vars

\* two session entries were cleared while the persistent tier holds a record
C18_Witness ==
    /\ op # NoneVal
    /\ op.name = "clear_session"
    /\ op.before.entries = 2
    /\ session_memory = <<>>
    /\ \E k \in StorePersistentKeys : get_persistent(db, k) # NoneVal

-----------------------------------------------------------------------------
(* Properties of the hint extractors (specification SpecExpand)            *)

\* the two characters are the same letter, whatever their case
SameLetter(c, d) ==
    \/ c = d
    \/ <<c, d>> \in {<<"B","b">>, <<"G","g">>, <<"H","h">>, <<"I","i">>,
                      <<"R","r">>, <<"S","s">>, <<"T","t">>, <<"W","w">>}

\* text has the lower-case word somewhere, in any mix of cases
HasWord(text, word) ==
    \E i \in 1..(Len(text) - Len(word) + 1) :
        \A j \in 1..Len(word) : SameLetter(text[i + j - 1], word[j])

HasAny(text, words) == \E w \in words : HasWord(text, w)

\* C17: the hint extractors are functions of the expansion text alone:
\* primary_light is 'natural' iff the text has 'sunlight' in any case (else
\* 'artificial'), mood is 'bright' iff it has 'bright', 'sunny' or 'daylight'
\* (else 'dark'), perspective is 'wide' iff it has 'panorama', 'wide' or
\* 'vast' (else 'close'), focus is 'foreground' iff it has 'foreground' (else
\* 'background'); and an expansion that is returned has mood 'bright' only if
\* its expanded_prompt has one of the three brightness words.
C17_HintExtractors ==
    (exp_ret # NoneVal /\ exp_args.r1.ok /\ exp_args.r2.ok) =>
        LET text == exp_args.r1.text
            hints == exp_ret.style_hints
        IN
        /\ DOMAIN hints.lighting = {"primary_light", "mood"}
        /\ DOMAIN hints.composition = {"perspective", "focus"}
        /\ hints.lighting.primary_light =
              IF HasWord(text, W_sunlight) THEN "natural" ELSE "artificial"
        /\ hints.lighting.mood =
              IF HasAny(text, {W_bright, W_sunny, W_daylight})
              THEN "bright" ELSE "dark"
        /\ hints.composition.perspective =
              IF HasAny(text, {W_panorama, W_wide, W_vast})
              THEN "wide" ELSE "close"
        /\ hints.composition.focus =
              IF HasWord(text, W_foreground) THEN "foreground" ELSE "background"
        /\ hints.lighting.mood = "bright" =>
              HasAny(exp_ret.expanded_prompt, {W_bright, W_sunny, W_daylight})

\* an upper-case 'BRIGHT' made the mood bright, and the text has no
\* 'sunlight'
C17_Witness ==
    /\ exp_ret # NoneVal
    /\ exp_args.r1 = LLMText(T_bright)
    /\ exp_args.r2.ok
    /\ exp_ret.style_hints.lighting = [primary_light |-> "artificial", mood |-> "bright"]
    /\ exp_ret.style_hints.composition = [perspective |-> "close", focus |-> "foreground"]

-----------------------------------------------------------------------------
(* Properties of the callbacks (specification SpecApp)                     *)

\* C16: the storage handle opened by MemoryHandler.__init__ is released
\* exactly once on every exit path: close is never called twice, it is not
\* called while the handler can still be used, and once the process has
\* ended the handle that config opened has been closed once.
C16_ReleasedExactlyOnce ==
    /\ handle.closes <= 1
    /\ handle.closes > 0 => proc = "exited"
    /\ (proc = "exited" /\ handle.opened) => handle.closes = 1

\* C19: execute processes the prompt through the pipeline.  With an empty
\* prompt or without a 'super-user' configuration that has app ids it sets
\* an error message and leaves both memory tiers alone; otherwise it runs
\* the pipeline for a fresh session id and the message is the success text
\* when the run returned 'success' and 'Error in pipeline: <message>' when it
\* returned 'error'.
C19_ExecuteRunsPipeline ==
    message # Unbound =>
        IF request = <<>>
        THEN message = Msg_NoPrompt /\ session_memory = <<>> /\ db = EmptyDict
        ELSE IF user_config = NoneVal \/ user_config.app_ids = <<>>
        THEN message = Msg_NoConfig /\ session_memory = <<>> /\ db = EmptyDict
        ELSE message[1] \in {"Successfully processed your request!\n",
                             "Error in pipeline: "}

\* C20: after any sequence of config calls the memory handler, the LLM
\* handler and the pipeline have each been constructed at most once, a
\* configuration is recorded only when the pipeline exists, and the LLM
\* handler of the pipeline is the module-level llm_handler, also when
\* llm_handler was set by a later config call.
C20_HandlerWiring ==
    /\ constructed.memory <= 1
    /\ constructed.llm <= 1
    /\ constructed.pipeline <= 1
    /\ (\E u \in UserIds : configurations[u] # NoneVal) => pipeline = "Pipeline"
    /\ pipeline = "Pipeline" => llm = llm_handler

====
